---- MODULE Spec2Model ----
(***************************************************************************)
(* Model of the satellite ground-track pipeline: show_all.py (altitude     *)
(* filtering, two plots) and show_satellites_trajectories.py (one plot),   *)
(* both configured by config.py.                                           *)
(*                                                                         *)
(* Instants are records [minute, second, microsecond]: whole minutes since *)
(* a reference epoch plus the sub-minute part, so that the conversions     *)
(* between datetime objects and Skyfield times keep what they keep and     *)
(* drop what they drop.  Element-set lines are strings; the orbital        *)
(* library (EarthSatellite, sat.at, subpoint) is outside the repository    *)
(* and is represented by a pure function of (element set, instant).        *)
(***************************************************************************)
EXTENDS Integers, Sequences, FiniteSets, TLC

VARIABLES
    script,             \* which of the two programs runs
    PREDICTION_DAYS,    \* config.py: PREDICTION_DAYS
    TIME_STEP_MINUTES,  \* config.py: TIME_STEP_MINUTES
    start_time,         \* main: start_time = datetime.utcnow()
    pc,                 \* position of main
    times,              \* Skyfield times returned by generate_time_steps
    times_datetime,     \* datetime list returned by generate_time_steps (show_all)
    idx,                \* index of the next id of SATELLITE_IDS in the fetch loop
    fetched,            \* per attempted id, what fetch_tle returned
    satellites,         \* main: satellites
    skipped,            \* ids reported "Skipping satellite ID ... due to missing TLE."
    filtered_satellite_data,
    all_satellite_data,
    renders             \* the plot calls made, in order

vars == <<script, PREDICTION_DAYS, TIME_STEP_MINUTES, start_time, pc, times,
          times_datetime, idx, fetched, satellites, skipped,
          filtered_satellite_data, all_satellite_data, renders>>

-----------------------------------------------------------------------------
(* Bounds of the model *)

NumSats == 3

MaxDays == 1

(* config.py *)

MAX_ALTITUDE_KM == 800

ConfiguredIds == <<59625, 60453, 59626, 60452, 40115>>

SATELLITE_IDS == SubSeq(ConfiguredIds, 1, NumSats)

\* The named replacement fields of TLE_URL: "{sat_id}&apiKey={api_key}".
TLE_URL_FIELDS == {"sat_id", "api_key"}

(* Inputs the environment supplies *)

Scripts == {"show_all", "show_satellites_trajectories"}

DayChoices == 0..MaxDays

StepChoices == {0, 360, 1000}

StartTimes ==
    { [minute |-> 0, second |-> s, microsecond |-> us] :
        s \in {0, 30}, us \in {0, 500000} }

-----------------------------------------------------------------------------
(* Element sets and the service's responses *)

Orbits == {"HIGH", "MIXED", "EDGE"}

Line1Of(o) == CASE o = "HIGH" -> "1 HIGH" [] o = "MIXED" -> "1 MIXED" [] o = "EDGE" -> "1 EDGE"

Line2Of(o) == CASE o = "HIGH" -> "2 HIGH" [] o = "MIXED" -> "2 MIXED" [] o = "EDGE" -> "2 EDGE"

\* data["tle"] after splitlines(): the payloads the service may send.
TlePayloads ==
    { <<>>,                                   \* "tle": ""
      <<"1 MIXED">>,                          \* one line only
      <<"", "2 MIXED">>,                      \* "\n2 MIXED"
      <<"1 MIXED", "">>,                      \* "1 MIXED\n\n"
      <<"1 HIGH", "2 HIGH", "">>,             \* a trailing blank line
      <<"garbage", "garbage">> }              \* two non-empty malformed lines
    \cup { <<Line1Of(o), Line2Of(o)>> : o \in Orbits }

Responses ==
    { [status |-> "error", has_tle |-> FALSE, tle |-> <<>>],
      [status |-> "ok", has_tle |-> FALSE, tle |-> <<>>] }
    \cup { [status |-> "ok", has_tle |-> TRUE, tle |-> p] : p \in TlePayloads }

None == "<None>"

NoTle == <<None, None, None>>

\* Python truth value of a fetched field: None and "" are false.
Truthy(x) == x # None /\ x # ""

\* str(sat_id)
Str(sat_id) == ToString(sat_id)

\* str.format raises KeyError when a named field gets no keyword argument.
FormatRaises(kwargs) == TLE_URL_FIELDS \ kwargs # {}

\* show_all.fetch_tle
fetch_tle(sat_id, response) ==
    IF FormatRaises({"sat_id", "api_key"}) \/ response.status = "error"
    THEN NoTle
    ELSE IF response.has_tle /\ response.tle # <<>>
         THEN IF Len(response.tle) >= 2
              THEN <<Str(sat_id), response.tle[1], response.tle[2]>>
              ELSE NoTle
         ELSE NoTle

\* show_satellites_trajectories.fetch_tle: the url is formatted with
\* positional arguments; every exception (KeyError, IndexError) gives NoTle.
fetch_tle_trajectories(sat_id, response) ==
    IF FormatRaises({}) \/ response.status = "error"
    THEN NoTle
    ELSE IF ~response.has_tle \/ Len(response.tle) < 2
         THEN NoTle
         ELSE <<Str(sat_id), response.tle[1], response.tle[2]>>

FetchTle(sat_id, response) ==
    IF script = "show_all" THEN fetch_tle(sat_id, response)
    ELSE fetch_tle_trajectories(sat_id, response)

\* main: if line1 and line2
Admitted(t) == Truthy(t[2]) /\ Truthy(t[3])

-----------------------------------------------------------------------------
(* The orbital library *)

WellFormed(line1, line2) ==
    \E o \in Orbits : line1 = Line1Of(o) /\ line2 = Line2Of(o)

OrbitOf(line1, line2) ==
    CHOOSE o \in Orbits : line1 = Line1Of(o) /\ line2 = Line2Of(o)

\* EarthSatellite(line1, line2, name, ts): the outcomes of the constructor.
\* Lines that are no element set either make the constructor raise or give
\* an object whose at() raises.
EarthSatellite(line1, line2, name) ==
    IF WellFormed(line1, line2)
    THEN { [raised |-> FALSE, name |-> name, orbit |-> OrbitOf(line1, line2),
            at_raises |-> FALSE] }
    ELSE { [raised |-> TRUE, name |-> name, orbit |-> "NONE", at_raises |-> TRUE],
           [raised |-> FALSE, name |-> name, orbit |-> "NONE", at_raises |-> TRUE] }

Profile(orbit) ==
    CASE orbit = "HIGH" -> <<1200, 1200, 1200, 1200, 1200>>
      [] orbit = "MIXED" -> <<500, 900, 750, 1200, 600>>
      [] orbit = "EDGE" -> <<800, 801, 800, 799, 801>>

Hour(t) == t.minute \div 60

\* subpoint.elevation.km of sat.at(t)
AltKm(orbit, t) == Profile(orbit)[(Hour(t) % 5) + 1]

\* subpoint.latitude.degrees, subpoint.longitude.degrees of sat.at(t)
LatDeg(orbit, t) == ((Hour(t) * 7) % 181) - 90

LonDeg(orbit, t) == ((Hour(t) * 15 + t.second) % 361) - 180

-----------------------------------------------------------------------------
(* generate_time_steps *)

AddMinutes(dt, m) == [dt EXCEPT !.minute = dt.minute + m]

\* int((days * 24 * 60) / step_minutes) + 1, for days >= 0 and step_minutes > 0
TotalSteps(days, step_minutes) == ((days * 24 * 60) \div step_minutes) + 1

\* ts.utc(dt.year, dt.month, dt.day, dt.hour, dt.minute, dt.second)
TsUtcOfDatetime(dt) == [minute |-> dt.minute, second |-> dt.second, microsecond |-> 0]

\* ts.utc(year, month, day, hour, minute): the seconds default to 0
TsUtcMinute(dt, m) == [minute |-> dt.minute + m, second |-> 0, microsecond |-> 0]

\* show_all.generate_time_steps: <<times, times_datetime>>
generate_time_steps(start, days, step_minutes) ==
    LET total_steps == TotalSteps(days, step_minutes)
        dts == [i \in 1..total_steps |-> AddMinutes(start, step_minutes * (i - 1))]
    IN  <<[i \in 1..total_steps |-> TsUtcOfDatetime(dts[i])], dts>>

\* show_satellites_trajectories.generate_time_steps: times only
generate_time_steps_trajectories(start, days, step_minutes) ==
    LET total_steps == TotalSteps(days, step_minutes)
    IN  [i \in 1..total_steps |-> TsUtcMinute(start, step_minutes * (i - 1))]

-----------------------------------------------------------------------------
(* collect_satellite_data *)

\* subpoint.elevation.m
ElevM(orbit, t) == AltKm(orbit, t) * 1000

\* Mutation: the comparison made strict.
Mask_Strict(alt_km) == [i \in DOMAIN alt_km |-> alt_km[i] < MAX_ALTITUDE_KM]

\* mask = alt_km <= MAX_ALTITUDE_KM
Mask(alt_km) == [i \in DOMAIN alt_km |-> alt_km[i] <= MAX_ALTITUDE_KM]

\* Mutation: the entry is created whatever the mask holds.
AnyMask_Always(mask) == TRUE

\* np.any(mask)
AnyMask(mask) == \E i \in DOMAIN mask : mask[i]

RECURSIVE TakeMasked(_, _, _)
TakeMasked(arr, mask, i) ==
    IF i > Len(arr) THEN <<>>
    ELSE IF mask[i] THEN <<arr[i]>> \o TakeMasked(arr, mask, i + 1)
         ELSE TakeMasked(arr, mask, i + 1)

\* arr[mask]: boolean-mask indexing of an array
MaskIndex(arr, mask) == TakeMasked(arr, mask, 1)

\* Mutation: the first instants of the grid, as many as the mask keeps.
FilteredTimes_Prefix(dts, mask) ==
    SubSeq(dts, 1, Cardinality({ i \in DOMAIN mask : mask[i] }))

\* [times_datetime[i] for i, m in enumerate(mask) if m]
FilteredTimes(dts, mask) == TakeMasked(dts, mask, 1)

\* data[sat.name] of the filtering branch
FilteredEntry(lat, lon, elev_m, alt_km, dts, mask) ==
    [latitude |-> MaskIndex(lat, mask),
     longitude |-> MaskIndex(lon, mask),
     elevation_m |-> MaskIndex(elev_m, mask),
     altitude_km |-> MaskIndex(alt_km, mask),
     times |-> FilteredTimes(dts, mask)]

\* data[sat.name] of the branch without filtering
UnfilteredEntry(lat, lon, elev_m, alt_km, dts) ==
    [latitude |-> lat, longitude |-> lon, elevation_m |-> elev_m,
     altitude_km |-> alt_km, times |-> dts]

\* One iteration of the loop over satellites: the dictionary after it.
CollectOne(data, sat, ts, dts, filter_altitude) ==
    LET lat == [i \in DOMAIN ts |-> LatDeg(sat.orbit, ts[i])]
        lon == [i \in DOMAIN ts |-> LonDeg(sat.orbit, ts[i])]
        elev_m == [i \in DOMAIN ts |-> ElevM(sat.orbit, ts[i])]
        alt_km == [i \in DOMAIN ts |-> AltKm(sat.orbit, ts[i])]
        mask == Mask(alt_km)
    IN  IF filter_altitude
        THEN IF AnyMask(mask)
             THEN [n \in DOMAIN data \cup {sat.name} |->
                     IF n = sat.name
                     THEN FilteredEntry(lat, lon, elev_m, alt_km, dts, mask)
                     ELSE data[n]]
             ELSE data
        ELSE [n \in DOMAIN data \cup {sat.name} |->
                IF n = sat.name
                THEN UnfilteredEntry(lat, lon, elev_m, alt_km, dts)
                ELSE data[n]]

RECURSIVE CollectFrom(_, _, _, _, _, _)
CollectFrom(data, sats, k, ts, dts, filter_altitude) ==
    IF k > Len(sats) THEN [raised |-> FALSE, data |-> data]
    ELSE IF sats[k].at_raises THEN [raised |-> TRUE, data |-> data]
         ELSE CollectFrom(CollectOne(data, sats[k], ts, dts, filter_altitude),
                          sats, k + 1, ts, dts, filter_altitude)

\* collect_satellite_data(satellites, times, times_datetime, filter_altitude):
\* the returned dictionary, or raised when sat.at(times) raises.
collect_satellite_data(sats, ts, dts, filter_altitude) ==
    CollectFrom(<<>>, sats, 1, ts, dts, filter_altitude)

-----------------------------------------------------------------------------
(* main *)

\* Mutation: a single satellite counts as none.
NoSatellites_AtMostOne(sats) == Len(sats) <= 1

\* if not satellites
NoSatellites(sats) == Len(sats) = 0

\* Mutation: the filtered plot is never made.
ShouldPlotFiltered_Never(data) == FALSE

\* if filtered_satellite_data
ShouldPlotFiltered(data) == DOMAIN data # {}

\* plot_filtered_orbits: plt.colorbar(scatter, ...) reads the variable the
\* loop over filtered_data binds, which is unbound for an empty dictionary.
plot_filtered_orbits(data) ==
    IF DOMAIN data = {} THEN [raised |-> TRUE, call |-> [figure |-> "filtered", data |-> data]]
    ELSE [raised |-> FALSE, call |-> [figure |-> "filtered", data |-> data]]

\* plot_all_orbits
plot_all_orbits(data) == [raised |-> FALSE, call |-> [figure |-> "all", data |-> data]]

Init ==
    /\ script \in Scripts
    /\ PREDICTION_DAYS \in DayChoices
    /\ TIME_STEP_MINUTES \in StepChoices
    /\ start_time \in StartTimes
    /\ pc = "start"
    /\ times = <<>>
    /\ times_datetime = <<>>
    /\ idx = 1
    /\ fetched = <<>>
    /\ satellites = <<>>
    /\ skipped = <<>>
    /\ filtered_satellite_data = <<>>
    /\ all_satellite_data = <<>>
    /\ renders = <<>>

\* times[, times_datetime] = generate_time_steps(start_time, PREDICTION_DAYS,
\* TIME_STEP_MINUTES); a zero step raises ZeroDivisionError.
GenerateTimeSteps ==
    /\ pc = "start"
    /\ IF TIME_STEP_MINUTES = 0
       THEN /\ pc' = "crashed"
            /\ UNCHANGED <<times, times_datetime>>
       ELSE /\ pc' = "fetch"
            /\ IF script = "show_all"
               THEN LET r == generate_time_steps(start_time, PREDICTION_DAYS,
                                                 TIME_STEP_MINUTES)
                    IN  /\ times' = r[1]
                        /\ times_datetime' = r[2]
               ELSE /\ times' = generate_time_steps_trajectories(
                                    start_time, PREDICTION_DAYS, TIME_STEP_MINUTES)
                    /\ times_datetime' = <<>>
    /\ UNCHANGED <<script, PREDICTION_DAYS, TIME_STEP_MINUTES, start_time, idx,
                   fetched, satellites, skipped, filtered_satellite_data,
                   all_satellite_data, renders>>

\* One iteration of "for sat_id in SATELLITE_IDS".
FetchNext ==
    /\ pc = "fetch"
    /\ idx <= Len(SATELLITE_IDS)
    /\ \E response \in Responses :
         LET sat_id == SATELLITE_IDS[idx]
             t == FetchTle(sat_id, response)
         IN  /\ fetched' = Append(fetched, [sat_id |-> sat_id, name |-> t[1],
                                            line1 |-> t[2], line2 |-> t[3]])
             /\ idx' = idx + 1
             /\ IF Admitted(t)
                THEN \E sat \in EarthSatellite(t[2], t[3], t[1]) :
                        /\ skipped' = skipped
                        /\ IF sat.raised
                           THEN /\ pc' = "crashed"
                                /\ satellites' = satellites
                           ELSE /\ pc' = pc
                                /\ satellites' = Append(satellites, sat)
                ELSE /\ skipped' = Append(skipped, sat_id)
                     /\ pc' = pc
                     /\ satellites' = satellites
    /\ UNCHANGED <<script, PREDICTION_DAYS, TIME_STEP_MINUTES, start_time, times,
                   times_datetime, filtered_satellite_data, all_satellite_data,
                   renders>>

\* After the loop: "if not satellites: ... return".  The remainder of
\* show_satellites_trajectories.main (collect, plot) needs a fetched element
\* set, which its fetch_tle never returns.
CheckSatellites ==
    /\ pc = "fetch"
    /\ idx > Len(SATELLITE_IDS)
    /\ pc' = IF NoSatellites(satellites) THEN "aborted"
             ELSE IF script = "show_all" THEN "collect_filtered" ELSE "collect"
    /\ UNCHANGED <<script, PREDICTION_DAYS, TIME_STEP_MINUTES, start_time, times,
                   times_datetime, idx, fetched, satellites, skipped,
                   filtered_satellite_data, all_satellite_data, renders>>

\* filtered_satellite_data = collect_satellite_data(..., filter_altitude=True)
CollectFiltered ==
    /\ pc = "collect_filtered"
    /\ LET r == collect_satellite_data(satellites, times, times_datetime, TRUE)
       IN  IF r.raised
           THEN /\ pc' = "crashed"
                /\ UNCHANGED filtered_satellite_data
           ELSE /\ pc' = "collect_all"
                /\ filtered_satellite_data' = r.data
    /\ UNCHANGED <<script, PREDICTION_DAYS, TIME_STEP_MINUTES, start_time, times,
                   times_datetime, idx, fetched, satellites, skipped,
                   all_satellite_data, renders>>

\* all_satellite_data = collect_satellite_data(..., filter_altitude=False)
CollectAll ==
    /\ pc = "collect_all"
    /\ LET r == collect_satellite_data(satellites, times, times_datetime, FALSE)
       IN  IF r.raised
           THEN /\ pc' = "crashed"
                /\ UNCHANGED all_satellite_data
           ELSE /\ pc' = "plot_filtered"
                /\ all_satellite_data' = r.data
    /\ UNCHANGED <<script, PREDICTION_DAYS, TIME_STEP_MINUTES, start_time, times,
                   times_datetime, idx, fetched, satellites, skipped,
                   filtered_satellite_data, renders>>

\* if filtered_satellite_data: plot_filtered_orbits(...) else: "No filtered data to plot."
PlotFiltered ==
    /\ pc = "plot_filtered"
    /\ IF ShouldPlotFiltered(filtered_satellite_data)
       THEN LET r == plot_filtered_orbits(filtered_satellite_data)
            IN  IF r.raised
                THEN /\ pc' = "crashed"
                     /\ UNCHANGED renders
                ELSE /\ pc' = "plot_all"
                     /\ renders' = Append(renders, r.call)
       ELSE /\ pc' = "plot_all"
            /\ UNCHANGED renders
    /\ UNCHANGED <<script, PREDICTION_DAYS, TIME_STEP_MINUTES, start_time, times,
                   times_datetime, idx, fetched, satellites, skipped,
                   filtered_satellite_data, all_satellite_data>>

\* plot_all_orbits(all_satellite_data, ...), then main returns
PlotAll ==
    /\ pc = "plot_all"
    /\ LET r == plot_all_orbits(all_satellite_data)
       IN  /\ pc' = "done"
           /\ renders' = Append(renders, r.call)
    /\ UNCHANGED <<script, PREDICTION_DAYS, TIME_STEP_MINUTES, start_time, times,
                   times_datetime, idx, fetched, satellites, skipped,
                   filtered_satellite_data, all_satellite_data>>

Next ==
    \/ GenerateTimeSteps
    \/ FetchNext
    \/ CheckSatellites
    \/ CollectFiltered
    \/ CollectAll
    \/ PlotFiltered
    \/ PlotAll

Spec == Init /\ [][Next]_vars

-----------------------------------------------------------------------------
(* Vocabulary of the properties *)

Terminal == pc \in {"done", "aborted", "crashed"}

ValidConfig == PREDICTION_DAYS > 0 /\ TIME_STEP_MINUTES > 0

AllAttempted == Len(fetched) = Len(SATELLITE_IDS)

\* Ids whose fetch gave two non-empty lines / did not.
SucceededIds ==
    { fetched[i].sat_id : i \in { j \in DOMAIN fetched :
                                   Truthy(fetched[j].line1) /\ Truthy(fetched[j].line2) } }

FailedIds == { fetched[i].sat_id : i \in DOMAIN fetched } \ SucceededIds

\* Ids whose fetch gave two non-empty lines that are no element set.
MalformedIds ==
    { fetched[i].sat_id : i \in { j \in DOMAIN fetched :
          /\ Truthy(fetched[j].line1) /\ Truthy(fetched[j].line2)
          /\ ~WellFormed(fetched[j].line1, fetched[j].line2) } }

NamesOf(ids) == { ToString(id) : id \in ids }

Range(f) == { f[i] : i \in DOMAIN f }

FilteredComputed == pc \in {"collect_all", "plot_filtered", "plot_all", "done"}

BothComputed == pc \in {"plot_filtered", "plot_all", "done"}

\* The j-th smallest element of a finite set of integers.
Nth(S, j) == CHOOSE i \in S : Cardinality({ x \in S : x < i }) = j - 1

\* The altitude of a satellite at every instant of the time grid.
AltitudesOf(sat) == [i \in DOMAIN times |-> AltKm(sat.orbit, times[i])]

\* The indices of the grid at which a satellite is at or below the threshold.
QualifyingIndices(sat) ==
    { i \in DOMAIN times : AltKm(sat.orbit, times[i]) <= MAX_ALTITUDE_KM }

FieldLengths(e) ==
    { Len(e.latitude), Len(e.longitude), Len(e.elevation_m), Len(e.altitude_km),
      Len(e.times) }

\* The samples of a dictionary entry, one tuple per index.
Samples(e) ==
    [i \in 1..Len(e.times) |->
        <<e.latitude[i], e.longitude[i], e.elevation_m[i], e.altitude_km[i], e.times[i]>>]

RECURSIVE IsSubsequenceFrom(_, _, _, _)
IsSubsequenceFrom(a, b, i, j) ==
    IF i > Len(a) THEN TRUE
    ELSE IF j > Len(b) THEN FALSE
    ELSE IF a[i] = b[j] THEN IsSubsequenceFrom(a, b, i + 1, j + 1)
    ELSE IsSubsequenceFrom(a, b, i, j + 1)

\* a is b with some elements removed, the others in their order.
IsSubsequence(a, b) == IsSubsequenceFrom(a, b, 1, 1)

-----------------------------------------------------------------------------
(* C1: whatever subset of the configured ids fails to fetch, the run does   *)
(* not abort, every configured id is attempted, each failed id is reported  *)
(* skipped once, and the unfiltered TrajectorySet has an entry for exactly  *)
(* the ids whose fetch succeeded.                                           *)
C1_FetchFailureIsolation ==
    (ValidConfig /\ Terminal) =>
        /\ AllAttempted
        /\ Range(skipped) = FailedIds /\ Len(skipped) = Cardinality(FailedIds)
        /\ SucceededIds # {} =>
              /\ pc = "done"
              /\ DOMAIN all_satellite_data = NamesOf(SucceededIds)

(* C2: an admitted element set that cannot be evaluated is left out of the  *)
(* output while the run goes on: every id is still attempted, the run ends  *)
(* normally and every other admitted satellite has its trajectory.          *)
C2_PropagationFailureIsolated ==
    (ValidConfig /\ Terminal /\ MalformedIds # {}) =>
        /\ AllAttempted
        /\ pc \in {"done", "aborted"}
        /\ pc = "done" =>
              DOMAIN all_satellite_data = NamesOf(SucceededIds \ MalformedIds)

(* C3: the run ends in "No satellites to track" exactly when every          *)
(* configured id has been attempted and none gave two non-empty lines; in   *)
(* that outcome no trajectory set was computed and no plot call was made.   *)
C3_NoUsableSatellites ==
    /\ pc = "aborted" =>
          /\ AllAttempted
          /\ SucceededIds = {}
          /\ DOMAIN filtered_satellite_data = {}
          /\ DOMAIN all_satellite_data = {}
          /\ renders = <<>>
    /\ (AllAttempted /\ SucceededIds = {}) => pc \in {"fetch", "aborted"}
    /\ (Terminal /\ SucceededIds # {}) => pc # "aborted"

C3_Witness ==
    /\ pc = "aborted"
    /\ script = "show_all"
    /\ Len(skipped) = Len(SATELLITE_IDS)
    /\ \E i \in DOMAIN fetched : fetched[i].line2 = ""

(* C4: for positive days and step_minutes the grid has                      *)
(* floor(days*24*60/step_minutes)+1 instants, the i-th being start_time     *)
(* plus i steps (so the first is start_time), and the last is not later     *)
(* than start_time plus days.                                               *)
C4_TimeGridShape ==
    (ValidConfig /\ pc \notin {"start", "crashed"}) =>
        LET n == (PREDICTION_DAYS * 24 * 60) \div TIME_STEP_MINUTES
        IN  /\ Len(times) = n + 1
            /\ \A i \in DOMAIN times :
                  times[i] = [minute |-> start_time.minute + (i - 1) * TIME_STEP_MINUTES,
                              second |-> start_time.second,
                              microsecond |-> start_time.microsecond]
            /\ times[1] = start_time
            /\ times[n + 1].minute <= start_time.minute + PREDICTION_DAYS * 24 * 60
            /\ script = "show_all" =>
                  /\ Len(times_datetime) = n + 1
                  /\ \A i \in DOMAIN times_datetime :
                        times_datetime[i] =
                            [minute |-> start_time.minute + (i - 1) * TIME_STEP_MINUTES,
                             second |-> start_time.second,
                             microsecond |-> start_time.microsecond]

(* C5: with days <= 0 or step_minutes <= 0 the run fails before any fetch,  *)
(* propagation or plot, and no time grid is produced.                       *)
C5_InvalidConfigurationRejected ==
    ~ValidConfig =>
        /\ pc \in {"start", "crashed"}
        /\ times = <<>> /\ times_datetime = <<>>
        /\ fetched = <<>>
        /\ renders = <<>>

(* C6: the filtered entry of a satellite holds exactly the samples whose    *)
(* altitude is <= MAX_ALTITUDE_KM (a sample at the threshold is kept), in   *)
(* grid order, and latitude, longitude, elevation_m, altitude_km and times  *)
(* all keep the same indices.                                               *)
C6_AltitudeFilterResult ==
    FilteredComputed =>
        \A k \in DOMAIN satellites :
            LET sat == satellites[k]
                keep == QualifyingIndices(sat)
                at(j) == times[Nth(keep, j)]
            IN  sat.name \in DOMAIN filtered_satellite_data =>
                  LET e == filtered_satellite_data[sat.name]
                  IN  /\ FieldLengths(e) = {Cardinality(keep)}
                      /\ \A j \in 1..Cardinality(keep) :
                            /\ e.altitude_km[j] = AltKm(sat.orbit, at(j))
                            /\ e.altitude_km[j] <= MAX_ALTITUDE_KM
                            /\ e.elevation_m[j] = ElevM(sat.orbit, at(j))
                            /\ e.latitude[j] = LatDeg(sat.orbit, at(j))
                            /\ e.longitude[j] = LonDeg(sat.orbit, at(j))
                            /\ e.times[j] = times_datetime[Nth(keep, j)]

\* Altitudes [500, 900, 750, 1200, 600] keep indices 1, 3, 5 (0, 2, 4 counted
\* from zero), and a sample at exactly 800 km is kept.
C6_Witness ==
    /\ FilteredComputed
    /\ \E k \in DOMAIN satellites :
          /\ AltitudesOf(satellites[k]) = <<500, 900, 750, 1200, 600>>
          /\ satellites[k].name \in DOMAIN filtered_satellite_data
          /\ filtered_satellite_data[satellites[k].name].altitude_km = <<500, 750, 600>>
          /\ filtered_satellite_data[satellites[k].name].times =
                <<times_datetime[1], times_datetime[3], times_datetime[5]>>
    /\ \E n \in DOMAIN filtered_satellite_data :
          MAX_ALTITUDE_KM \in Range(filtered_satellite_data[n].altitude_km)

(* C7: every processed satellite has an unfiltered trajectory of            *)
(* len(TimeGrid) samples, sample i being its position at instant i, and     *)
(* every filtered trajectory is an order-preserving subsequence of the same *)
(* satellite's unfiltered trajectory.                                       *)
C7_FilteredWithinUnfiltered ==
    BothComputed =>
        /\ \A k \in DOMAIN satellites :
              LET sat == satellites[k]
              IN  /\ sat.name \in DOMAIN all_satellite_data
                  /\ FieldLengths(all_satellite_data[sat.name]) = {Len(times)}
                  /\ all_satellite_data[sat.name].times = times_datetime
                  /\ all_satellite_data[sat.name].altitude_km = AltitudesOf(sat)
        /\ \A n \in DOMAIN filtered_satellite_data :
              /\ n \in DOMAIN all_satellite_data
              /\ Cardinality(FieldLengths(filtered_satellite_data[n])) = 1
              /\ IsSubsequence(Samples(filtered_satellite_data[n]),
                               Samples(all_satellite_data[n]))

\* A satellite whose filtered trajectory is a proper, non-empty part of its
\* unfiltered one, the dropped samples lying between kept ones.
C7_Witness ==
    /\ BothComputed
    /\ \E n \in DOMAIN filtered_satellite_data :
          /\ Len(all_satellite_data[n].times) = 5
          /\ Len(filtered_satellite_data[n].times) = 3
          /\ filtered_satellite_data[n].times[3] = all_satellite_data[n].times[5]

(* C8: a satellite has an entry in the filtered TrajectorySet if and only   *)
(* if one of its samples is at or below MAX_ALTITUDE_KM; no entry of the    *)
(* filtered set is empty.                                                   *)
C8_NoEmptyFilteredEntries ==
    FilteredComputed =>
        /\ DOMAIN filtered_satellite_data \subseteq { satellites[k].name : k \in DOMAIN satellites }
        /\ \A k \in DOMAIN satellites :
              (satellites[k].name \in DOMAIN filtered_satellite_data)
                  <=> (QualifyingIndices(satellites[k]) # {})
        /\ \A n \in DOMAIN filtered_satellite_data :
              0 \notin FieldLengths(filtered_satellite_data[n])

\* One processed satellite has no qualifying sample and is left out, another
\* has some and is present.
C8_Witness ==
    /\ FilteredComputed
    /\ \E k \in DOMAIN satellites :
          /\ QualifyingIndices(satellites[k]) = {}
          /\ satellites[k].name \notin DOMAIN filtered_satellite_data
    /\ DOMAIN filtered_satellite_data # {}

-----------------------------------------------------------------------------
(* The states of the run as the design names them *)

Phase ==
    CASE pc = "start" -> "Idle"
      [] pc = "fetch" /\ ~AllAttempted -> "TimeGridBuilt"
      [] pc = "fetch" /\ AllAttempted -> "ElementSetsGathered"
      [] pc = "collect_filtered" -> "ElementSetsGathered"
      [] pc = "collect_all" -> "TrajectoriesComputed"
      [] pc = "plot_filtered" -> "Filtered"
      [] pc = "plot_all" -> "Exported"
      [] pc = "done" -> "Done"
      [] pc = "aborted" -> "Aborted"
      [] OTHER -> "Crashed"

PhaseOrder ==
    <<"Idle", "TimeGridBuilt", "ElementSetsGathered", "TrajectoriesComputed",
      "Filtered", "Exported", "Done">>

PhaseStep(p, q) ==
    \/ p = q /\ p \in {"TimeGridBuilt", "ElementSetsGathered"}
    \/ \E i \in 1..(Len(PhaseOrder) - 1) : p = PhaseOrder[i] /\ q = PhaseOrder[i + 1]
    \/ p = "ElementSetsGathered" /\ q = "Aborted" /\ SucceededIds = {}

(* C9: a run moves through Idle, TimeGridBuilt, ElementSetsGathered,        *)
(* TrajectoriesComputed, Filtered, Exported, Done in that order; Aborted is *)
(* entered only from ElementSetsGathered with no usable satellite; a run    *)
(* with a usable satellite ends in Done.                                    *)
C9_RunStateMachine ==
    /\ [][ValidConfig => PhaseStep(Phase, Phase')]_vars
    /\ []((ValidConfig /\ Terminal /\ SucceededIds # {}) => pc = "done")

(* C10 as stated: a run with a usable satellite that completes has made     *)
(* exactly two plot calls, the filtered set then the unfiltered set.        *)
C10_TwoExports ==
    pc = "done" =>
        renders = << [figure |-> "filtered", data |-> filtered_satellite_data],
                     [figure |-> "all", data |-> all_satellite_data] >>

(* C10 amended: a run that completes has made one plot call with the        *)
(* unfiltered set, preceded by one plot call with the filtered set exactly  *)
(* when the filtered set is non-empty; no other plot call is made.          *)
C10_ExportsByFilteredContent ==
    LET filtered_call == [figure |-> "filtered", data |-> filtered_satellite_data]
        all_call == [figure |-> "all", data |-> all_satellite_data]
        first == IF DOMAIN filtered_satellite_data # {} THEN <<filtered_call>> ELSE <<>>
    IN  /\ pc = "done" => renders = first \o <<all_call>>
        /\ pc = "plot_all" => renders = first
        /\ pc \notin {"done", "plot_all"} => renders = <<>>

\* A completed run whose satellites are all above the threshold: one call.
C10_Witness ==
    /\ pc = "done"
    /\ DOMAIN filtered_satellite_data = {}
    /\ DOMAIN all_satellite_data # {}
    /\ Len(renders) = 1

====
